---- MODULE Spec2Model ----
(***************************************************************************)
(* A model of the TTLV codec (src/src/ttlv.rs, src/src/util.rs).           *)
(*                                                                         *)
(* Representation.  A byte is a number in 0..255 and a buffer a sequence   *)
(* of bytes; the byte at Rust index i is buf[i+1].  TLC's integers are 32  *)
(* bits wide, so a fixed-width Rust integer (i32, u32, i64, u64, usize) is *)
(* a sequence of 16-bit limbs, least significant limb first: two limbs for *)
(* 32 bits, four for 64.  usize is 64 bits wide (a 64-bit target).  Small  *)
(* quantities (buffer lengths, offsets, cursors) are plain naturals and    *)
(* are converted with usize / nat where the code does arithmetic on them.  *)
(* A node is [tag |-> u16, value |-> <<kind, payload>>].                   *)
(***************************************************************************)
EXTENDS Integers, Sequences, FiniteSets, TLC

VARIABLES
    stack,            \* nodes constructed so far (Ttlv::new), innermost last
    buf,              \* the caller's byte buffer
    written,          \* Rust indices of buf the last encode wrote
    enc,              \* result of the last Ttlv::encode
    dec,              \* result of the last Ttlv::decode
    query,            \* the tag sequence of the last Ttlv::path call
    found,            \* result of the last Ttlv::path
    field,            \* the 4-byte input of parse_ttlv_len
    plen,             \* result of the last parse_ttlv_len
    overflow_checks   \* build profile: TRUE = arithmetic overflow panics

vars == <<stack, buf, written, enc, dec, query, found, field, plen, overflow_checks>>

---------------------------------------------------------------------------
\* Bounds of the model.

\* most nodes in a tree built for encoding
MaxNodes == 3
\* most nodes in a tree built for path lookup
MaxPathNodes == 4
\* buffers handed to encode have 4*k bytes, k in 0..MaxBufWords
MaxBufWords == 16
\* most 8-byte chunks received before decode
MaxChunks == 3
\* longest tag sequence given to path
MaxPathLen == 2

---------------------------------------------------------------------------
\* Machine integers.

LIMB == 256 * 256

START_BYTE == 66

\* an i32 / u32 literal as two limbs (two's complement)
w32(n) == << n % LIMB, (n \div LIMB) % LIMB >>

\* an i64 / u64 literal as four limbs (two's complement); |n| < 2^31
w64(n) == << n % LIMB, (n \div LIMB) % LIMB,
             IF n < 0 THEN LIMB - 1 ELSE 0, IF n < 0 THEN LIMB - 1 ELSE 0 >>

\* a small natural as usize
usize(n) == w64(n)

\* `x as usize` for u32 x: zero extension
u32_as_usize(x) == << x[1], x[2], 0, 0 >>

\* `x as usize` for i32 x: sign extension
i32_as_usize(x) ==
    IF x[2] >= 32768 THEN << x[1], x[2], LIMB - 1, LIMB - 1 >>
                     ELSE << x[1], x[2], 0, 0 >>

\* `len as u32` for usize len: truncation
usize_as_u32(x) == << x[1], x[2] >>

\* whether a usize fits a plain natural of the model
fits(x) == x[3] = 0 /\ x[4] = 0 /\ x[2] < 32768

\* the natural a usize holds (only where fits(x))
nat(x) == x[1] + LIMB * x[2]

\* x + k on 64 bits, k < 65536: the wrapped sum and the carry out
usize_add(x, k) ==
    LET s1 == x[1] + k
        s2 == x[2] + (s1 \div LIMB)
        s3 == x[3] + (s2 \div LIMB)
        s4 == x[4] + (s3 \div LIMB)
    IN  [val |-> << s1 % LIMB, s2 % LIMB, s3 % LIMB, s4 % LIMB >>,
         carry |-> s4 \div LIMB > 0]

\* n < x for a natural n and a usize x
nat_lt_usize(n, x) == IF fits(x) THEN n < nat(x) ELSE TRUE

\* big-endian bytes of a limb sequence
RECURSIVE to_be_bytes(_)
to_be_bytes(x) ==
    IF x = << >> THEN << >>
    ELSE to_be_bytes(Tail(x)) \o << x[1] \div 256, x[1] % 256 >>

\* the same bytes read least significant first: the value a read without
\* the BE context yields on a little-endian host
RECURSIVE from_le_bytes(_)
from_le_bytes(b) ==
    IF b = << >> THEN << >>
    ELSE << b[1] + 256 * b[2] >> \o from_le_bytes(SubSeq(b, 3, Len(b)))

\* the limb sequence of big-endian bytes (an even number of them)
RECURSIVE from_be_bytes(_)
from_be_bytes(b) ==
    IF b = << >> THEN << >>
    ELSE from_be_bytes(SubSeq(b, 3, Len(b))) \o << 256 * b[1] + b[2] >>

\* rounding that adds a block to a length already a multiple of 8:
\* (len + 8) / 8 * 8
padded_len_plus8(len) ==
    LET s == usize_add(len, 8)
    IN  [val |-> << s.val[1] - (s.val[1] % 8), s.val[2], s.val[3], s.val[4] >>,
         overflow |-> s.carry]

\* util.rs: (len + 7) / 8 * 8 on usize.  The sum wraps in a build without
\* overflow checks and panics in one with them: val is the wrapped result,
\* overflow says that the sum overflowed.
padded_len(len) ==
    LET s == usize_add(len, 7)
    IN  [val |-> << s.val[1] - (s.val[1] % 8), s.val[2], s.val[3], s.val[4] >>,
         overflow |-> s.carry]

---------------------------------------------------------------------------
\* Values, types and results.

Kinds == << "Structure", "Integer", "LongInteger", "BigInteger", "Enumeration",
            "Boolean", "TextString", "ByteString", "DateTime", "Interval" >>

\* `type_ as u8`
Type_to_u8(kind) == CHOOSE c \in 1..10 : Kinds[c] = kind

\* type codes counted from 0 instead of 0x01
Type_from_u8_zero_based(c) == IF c \in 0..9 THEN Kinds[c + 1] ELSE "None"

\* Type::from_u8: the kind of a type code, "None" when there is none
Type_from_u8(c) == IF c \in 1..10 THEN Kinds[c] ELSE "None"

\* Ttlv::new with the tag already converted (Tag::to_u16)
Ttlv(t, v) == [tag |-> t, value |-> v]

Kind(n) == n.value[1]
Payload(n) == n.value[2]

NoNode == Ttlv(0, << "None", << >> >>)

Ok(n) == [status |-> "Ok", n |-> n, err |-> "none"]
Err(e) == [status |-> "Err", n |-> 0, err |-> e]
Panic == [status |-> "Panic", n |-> 0, err |-> "none"]
None == [status |-> "none", n |-> 0, err |-> "none"]

---------------------------------------------------------------------------
\* scroll's Cwrite / Cread on a byte slice, and util.rs write_var.
\* A memory m is [buf, written, panic]: the slice, the indices written so
\* far, and whether an access outside the slice has aborted the program.

Mem(b) == [buf |-> b, written |-> {}, panic |-> FALSE]

\* copy bytes to m.buf[offset .. offset + Len(bytes)); panics outside it
put(m, bytes, offset) ==
    IF m.panic THEN m
    ELSE IF offset + Len(bytes) > Len(m.buf) THEN [m EXCEPT !.panic = TRUE]
    ELSE [m EXCEPT
            !.buf = SubSeq(m.buf, 1, offset) \o bytes
                    \o SubSeq(m.buf, offset + Len(bytes) + 1, Len(m.buf)),
            !.written = m.written \cup (offset .. offset + Len(bytes) - 1)]

\* buf.cwrite_with::<T>(val, offset, BE)
cwrite_with(m, val, offset) == put(m, to_be_bytes(val), offset)

\* whether buf.cread_with::<T>(offset, BE) aborts: T has `size` bytes
cread_panics(b, size, offset) == offset + size > Len(b)

\* buf.cread_with::<T>(offset, BE)
cread_with(b, size, offset) == from_be_bytes(SubSeq(b, offset + 1, offset + size))

Zeros(n) == [i \in 1..n |-> 0]

\* write_var without the loop that zeroes the padding
write_var_unpadded(m, data, offset) ==
    IF offset > Len(m.buf) THEN [status |-> "Panic", err |-> "none", m |-> [m EXCEPT !.panic = TRUE]]
    ELSE IF nat_lt_usize(Len(m.buf) - offset, padded_len(usize(Len(data))).val)
    THEN [status |-> "Err", err |-> "InsufficientBufferSize", m |-> m]
    ELSE [status |-> "Ok", err |-> "none", m |-> put(m, data, offset)]

\* util.rs write_var: [status, err, m]
write_var(m, data, offset) ==
    IF offset > Len(m.buf) THEN [status |-> "Panic", err |-> "none", m |-> [m EXCEPT !.panic = TRUE]]
    ELSE
    LET data_len == Len(data)
        p == padded_len(usize(data_len))
    IN  IF p.overflow /\ overflow_checks
        THEN [status |-> "Panic", err |-> "none", m |-> [m EXCEPT !.panic = TRUE]]
        ELSE IF nat_lt_usize(Len(m.buf) - offset, p.val)
        THEN [status |-> "Err", err |-> "InsufficientBufferSize", m |-> m]
        ELSE [status |-> "Ok", err |-> "none",
              m |-> put(put(m, data, offset),
                        Zeros(nat(p.val) - data_len), offset + data_len)]

---------------------------------------------------------------------------
\* Ttlv::encode.  The result is [status, n, err, m]: m is the buffer as the
\* call leaves it, also when it fails part-way.

EncRes(r, m) == [status |-> r.status, n |-> r.n, err |-> r.err, m |-> m]

\* the size of a header alone, and of a header with two payload blocks
HEADER_ONLY_LEN == 16 - 8
HEADER_AND_TWO_LEN == 16 + 8

\* fewest bytes encode accepts (ttlv.rs: `if buf.len() < 16`)
MIN_ENCODE_LEN == 16

RECURSIVE encode(_, _)
RECURSIVE encode_children(_, _, _, _)

\* the loop `for c in children { cursor += c.encode(&mut buf[cursor..])?; }`
\* from child i on: [status, err, cursor, m]
encode_children(children, i, cursor, m) ==
    IF i > Len(children)
    THEN [status |-> "Ok", err |-> "none", cursor |-> cursor, m |-> m]
    ELSE IF cursor > Len(m.buf)
    THEN [status |-> "Panic", err |-> "none", cursor |-> cursor,
          m |-> [m EXCEPT !.panic = TRUE]]
    ELSE
    LET r == encode(children[i], Mem(SubSeq(m.buf, cursor + 1, Len(m.buf))))
        m2 == [buf |-> SubSeq(m.buf, 1, cursor) \o r.m.buf,
               written |-> m.written \cup {cursor + w : w \in r.m.written},
               panic |-> r.m.panic]
    IN  IF r.status # "Ok"
        THEN [status |-> r.status, err |-> r.err, cursor |-> cursor, m |-> m2]
        ELSE encode_children(children, i + 1, cursor + r.n, m2)

\* the match on self.value: [status, err, len, m]
encode_value(self, m) ==
    LET kind == Kind(self)
        val == Payload(self)
        done(len, mm) == [status |-> IF mm.panic THEN "Panic" ELSE "Ok",
                          err |-> "none", len |-> len, m |-> mm]
    IN  CASE kind = "Structure" ->
               LET r == encode_children(val, 1, 8, m)
               IN  [status |-> r.status, err |-> r.err, len |-> r.cursor - 8, m |-> r.m]
          [] kind \in {"Integer", "Enumeration", "Interval"} ->
               done(4, cwrite_with(cwrite_with(m, val, 8), w32(0), 12))
          [] kind \in {"LongInteger", "DateTime"} ->
               done(8, cwrite_with(m, val, 8))
          [] kind = "Boolean" ->
               done(8, cwrite_with(m, IF val THEN w64(1) ELSE w64(0), 8))
          [] kind = "BigInteger" ->
               [status |-> "Err", err |-> "UnsupportedType", len |-> 0, m |-> m]
          [] kind \in {"TextString", "ByteString"} ->
               LET r == write_var(m, val, 8)
               IN  [status |-> r.status, err |-> r.err, len |-> Len(val), m |-> r.m]

encode(self, m) ==
    IF Len(m.buf) < MIN_ENCODE_LEN THEN EncRes(Err("InsufficientBufferSize"), m)
    ELSE
    LET m1 == put(m, << START_BYTE >>, 0)
        m2 == put(m1, to_be_bytes(<< self.tag >>), 1)
        v == encode_value(self, m2)
    IN  IF v.status = "Panic" THEN EncRes(Panic, v.m)
        ELSE IF v.status = "Err" THEN EncRes(Err(v.err), v.m)
        ELSE
        LET m3 == put(v.m, << Type_to_u8(Kind(self)) >>, 3)
            m4 == cwrite_with(m3, usize_as_u32(usize(v.len)), 4)
            p == padded_len(usize(v.len))
        IN  IF m4.panic \/ (p.overflow /\ overflow_checks) THEN EncRes(Panic, m4)
            ELSE EncRes(Ok(8 + nat(p.val)), m4)

---------------------------------------------------------------------------
\* core::str::from_utf8: whether the bytes from index i on are well-formed
\* UTF-8 (no overlong forms, no surrogates, nothing above U+10FFFF).

RECURSIVE utf8_from(_, _)
utf8_from(b, i) ==
    LET n == Len(b)
        cont(k) == k <= n /\ b[k] \in 128..191
        in(k, lo, hi) == k <= n /\ b[k] \in lo..hi
        c == b[i]
    IN  IF i > n THEN TRUE
        ELSE IF c <= 127 THEN utf8_from(b, i + 1)
        ELSE IF c \in 194..223 THEN cont(i + 1) /\ utf8_from(b, i + 2)
        ELSE IF c = 224 THEN in(i + 1, 160, 191) /\ cont(i + 2) /\ utf8_from(b, i + 3)
        ELSE IF c \in (225..236) \cup {238, 239}
             THEN cont(i + 1) /\ cont(i + 2) /\ utf8_from(b, i + 3)
        ELSE IF c = 237 THEN in(i + 1, 128, 159) /\ cont(i + 2) /\ utf8_from(b, i + 3)
        ELSE IF c = 240
             THEN in(i + 1, 144, 191) /\ cont(i + 2) /\ cont(i + 3) /\ utf8_from(b, i + 4)
        ELSE IF c \in 241..243
             THEN cont(i + 1) /\ cont(i + 2) /\ cont(i + 3) /\ utf8_from(b, i + 4)
        ELSE IF c = 244
             THEN in(i + 1, 128, 143) /\ cont(i + 2) /\ cont(i + 3) /\ utf8_from(b, i + 4)
        ELSE FALSE

from_utf8(b) == utf8_from(b, 1)

---------------------------------------------------------------------------
\* Ttlv::decode.  The result is [status, node, n, err].

DecRes(r, node) == [status |-> r.status, node |-> node, n |-> r.n, err |-> r.err]

\* bytes b[lo .. hi) in Rust indices
Slice(b, lo, hi) == SubSeq(b, lo + 1, hi)

RECURSIVE decode(_)
RECURSIVE decode_children(_, _, _, _)

\* the loop `while let Ok((c, c_len)) = Ttlv::decode(&buf[cursor..8 + len])`:
\* [status, children, cursor]
decode_children(b, cursor, end, children) ==
    IF cursor > end \/ end > Len(b)
    THEN [status |-> "Panic", children |-> children, cursor |-> cursor]
    ELSE
    LET r == decode(Slice(b, cursor, end))
    IN  IF r.status = "Ok"
        THEN decode_children(b, cursor + r.n, end, Append(children, r.node))
        ELSE IF r.status = "Panic"
        THEN [status |-> "Panic", children |-> children, cursor |-> cursor]
        ELSE [status |-> "Ok", children |-> children, cursor |-> cursor]

\* bytes of the fixed-width payload of a scalar kind
Width(kind) == IF kind \in {"Integer", "Enumeration", "Interval"} THEN 4 ELSE 8

\* the match on type_: [status, err, value]; len fits a natural here
decode_value(b, kind, len) ==
    LET val(v) == [status |-> "Ok", err |-> "none", value |-> << kind, v >>]
        panic == [status |-> "Panic", err |-> "none", value |-> << "None", << >> >>]
    IN  CASE kind = "Structure" ->
               LET r == decode_children(b, 8, 8 + len, << >>)
               IN  IF r.status = "Panic" THEN panic ELSE val(r.children)
          [] kind \in {"Integer", "Enumeration", "Interval", "LongInteger", "DateTime"} ->
               IF cread_panics(b, Width(kind), 8) THEN panic
               ELSE val(cread_with(b, Width(kind), 8))
          [] kind = "Boolean" ->
               IF cread_panics(b, 8, 8) THEN panic
               ELSE val(cread_with(b, 8, 8) # w64(0))
          [] kind = "TextString" ->
               IF 8 + len > Len(b) THEN panic
               ELSE IF from_utf8(Slice(b, 8, 8 + len)) THEN val(Slice(b, 8, 8 + len))
               ELSE [status |-> "Err", err |-> "CorruptUtf8", value |-> << "None", << >> >>]
          [] kind \in {"BigInteger", "ByteString"} ->
               IF 8 + len > Len(b) THEN panic ELSE val(Slice(b, 8, 8 + len))

decode(b) ==
    IF Len(b) < 8 THEN DecRes(Err("InsufficientBufferSize"), NoNode)
    ELSE IF b[1] # START_BYTE THEN DecRes(Err("MissingStartByte"), NoNode)
    ELSE
    LET tag == cread_with(b, 2, 1)[1]
        type_ == Type_from_u8(b[4])
        len == u32_as_usize(cread_with(b, 4, 4))
        p == padded_len(len)
        total == usize_add(p.val, 8)
    IN  IF type_ = "None" THEN DecRes(Err("UnsupportedType"), NoNode)
        ELSE IF (p.overflow \/ total.carry) /\ overflow_checks THEN DecRes(Panic, NoNode)
        ELSE IF nat_lt_usize(Len(b), total.val)
        THEN DecRes(Err("InsufficientBufferSize"), NoNode)
        ELSE
        LET v == decode_value(b, type_, nat(len))
        IN  IF v.status = "Panic" THEN DecRes(Panic, NoNode)
            ELSE IF v.status = "Err" THEN DecRes(Err(v.err), NoNode)
            ELSE DecRes(Ok(nat(total.val)), Ttlv(tag, v.value))

---------------------------------------------------------------------------
\* Tag conversion (util.rs `impl Tag for T`) and Ttlv::path.  A tag type T is
\* the set of u16 values that are variants of it; u16 itself is 0..65535.

\* the enum Tag of lib.rs: Request, RequestHeader, ProtocolVersion, RequestBody
TestTag == 0..3

\* T::from_u16(n) aborts ("Could not convert from u16") outside the variants
from_u16_panics(T, n) == n \notin T

\* Iterator::find over the children from index i on, with the closure
\* `|c| { let child_tag: T = c.tag(); child_tag == tags[0] }`:
\* the index found, 0 for none, -1 when the closure aborts
RECURSIVE find(_, _, _, _)
find(children, i, T, tags) ==
    IF i > Len(children) THEN 0
    ELSE IF from_u16_panics(T, children[i].tag) \/ Len(tags) = 0 THEN 0 - 1
    ELSE IF children[i].tag = tags[1] THEN i
    ELSE find(children, i + 1, T, tags)

\* Ttlv::path::<T>: [status, node, err]
RECURSIVE path(_, _, _)
path(self, T, tags) ==
    IF Kind(self) # "Structure"
    THEN [status |-> "Err", node |-> NoNode, err |-> "TypeMismatch"]
    ELSE
    LET i == find(Payload(self), 1, T, tags)
    IN  IF i < 0 THEN [status |-> "Panic", node |-> NoNode, err |-> "none"]
        ELSE IF i = 0 THEN [status |-> "Err", node |-> NoNode, err |-> "ChildNotFound"]
        ELSE IF Len(tags) = 1
        THEN [status |-> "Ok", node |-> Payload(self)[i], err |-> "none"]
        ELSE path(Payload(self)[i], T, Tail(tags))

\* util.rs parse_ttlv_len: [status, val]
parse_ttlv_len(b) ==
    IF Len(b) # 4 THEN [status |-> "Panic", val |-> usize(0)]
    ELSE
    LET len == cread_with(b, 4, 0)
        p == padded_len(i32_as_usize(len))
    IN  IF p.overflow /\ overflow_checks THEN [status |-> "Panic", val |-> usize(0)]
        ELSE [status |-> "Ok", val |-> p.val]

---------------------------------------------------------------------------
\* Inputs.

\* tag of the nodes built for encoding: the two bytes differ
EncTags == {258}

\* non-Structure values built for encoding
EncLeaves ==
    { << "Integer", w32(0 - 2) >>,
      << "LongInteger", w64(0 - 3) >>,
      << "BigInteger", << 1 >> >>,
      << "Enumeration", << 1, 32768 >> >>,
      << "Boolean", TRUE >>,
      << "Boolean", FALSE >>,
      << "TextString", << >> >>,
      << "TextString", << 195, 169 >> >>,
      << "ByteString", << >> >>,
      << "ByteString", << 255 >> >>,
      << "ByteString", << 255, 66, 0, 1, 2, 3, 4, 5, 6 >> >>,
      << "DateTime", w64(1700000000) >>,
      << "Interval", w32(3600) >> }

\* lengths and prior contents of the buffers handed to encode
BufLens == {4 * k : k \in 0..MaxBufWords}
Fills == {0, 255}

\* tags of the nodes built for path lookup: 258 is no variant of TestTag
PathTags == {1, 258}
PathLeaves == { << "Integer", w32(6) >> }
QueryTags == {1, 2}

\* an 8-byte header as it arrives on the wire: tag 258, type code, length
Header(type, hi, lo) == << START_BYTE, 1, 2, type, hi, 0, 0, lo >>

\* the 8-byte chunks a peer sends: headers (well-formed, with a length below
\* the kind's width, with an unknown type code, with a length of 2^31) and
\* payload blocks (zero, text, a byte that no UTF-8 text holds)
Chunks ==
    { Header(type, 0, 0) : type \in 0..11 } \cup
    { Header(1, 0, 8), Header(1, 0, 16), Header(1, 128, 0),
      Header(2, 0, 4), Header(3, 0, 8), Header(7, 0, 1), Header(8, 0, 8),
      Header(4, 0, 3),
      << 0, 0, 0, 0, 0, 0, 0, 0 >>,
      << 65, 0, 0, 0, 0, 0, 0, 1 >>,
      << 255, 65, 0, 0, 0, 0, 0, 0 >> }

\* bytes of a length field given to parse_ttlv_len
LenBytes == {0, 1, 127, 128, 255}

RECURSIVE Seqs(_, _)
Seqs(S, n) ==
    IF n = 0 THEN { << >> }
    ELSE LET shorter == Seqs(S, n - 1)
         IN  shorter \cup { Append(q, x) : q \in { r \in shorter : Len(r) = n - 1 }, x \in S }

---------------------------------------------------------------------------
\* The state machine.

PathNone == [status |-> "none", node |-> NoNode, err |-> "none"]
DecNone == DecRes(None, NoNode)
LenNone == [status |-> "none", val |-> usize(0)]

RECURSIVE NodeCount(_)
RECURSIVE NodeCountAll(_)
NodeCountAll(nodes) ==
    IF nodes = << >> THEN 0 ELSE NodeCount(Head(nodes)) + NodeCountAll(Tail(nodes))
NodeCount(n) == 1 + (IF Kind(n) = "Structure" THEN NodeCountAll(Payload(n)) ELSE 0)

\* nodes of the tree once the stack is wrapped up into one root
Budget(nodes) == NodeCountAll(nodes) + (IF Len(nodes) > 1 THEN 1 ELSE 0)

Init ==
    /\ stack = << >>
    /\ buf = << >>
    /\ written = {}
    /\ enc = None
    /\ dec = DecNone
    /\ query = << >>
    /\ found = PathNone
    /\ field = << 0, 0, 0, 0 >>
    /\ plen = LenNone
    /\ overflow_checks = TRUE

\* Ttlv::new(tag, value) with a value that is not a Structure
NewLeaf(t, v, max) ==
    /\ enc.status = "none" /\ found.status = "none"
    /\ Budget(Append(stack, Ttlv(t, v))) <= max
    /\ stack' = Append(stack, Ttlv(t, v))
    /\ UNCHANGED <<buf, written, enc, dec, query, found, field, plen, overflow_checks>>

\* Ttlv::new(tag, Structure(vec![..])) over the last k nodes constructed
NewStructure(t, k, max) ==
    /\ enc.status = "none" /\ found.status = "none"
    /\ k <= Len(stack)
    /\ LET n == Len(stack)
           s == Append(SubSeq(stack, 1, n - k),
                       Ttlv(t, << "Structure", SubSeq(stack, n - k + 1, n) >>))
       IN  /\ Budget(s) <= max
           /\ stack' = s
    /\ UNCHANGED <<buf, written, enc, dec, query, found, field, plen, overflow_checks>>

\* message.encode(&mut [fill; n])
Encode(n, fill) ==
    /\ Len(stack) = 1 /\ enc.status = "none"
    /\ LET r == encode(stack[1], Mem([i \in 1..n |-> fill]))
       IN  /\ enc' = [status |-> r.status, n |-> r.n, err |-> r.err]
           /\ buf' = r.m.buf
           /\ written' = r.m.written
    /\ UNCHANGED <<stack, dec, query, found, field, plen, overflow_checks>>

\* Ttlv::decode(encoded) on the whole buffer encode filled
Decode ==
    /\ enc.status = "Ok" /\ dec.status = "none"
    /\ dec' = decode(buf)
    /\ UNCHANGED <<stack, buf, written, enc, query, found, field, plen, overflow_checks>>

Next ==
    \/ \E t \in EncTags, v \in EncLeaves : NewLeaf(t, v, MaxNodes)
    \/ \E t \in EncTags, k \in 0..MaxNodes : NewStructure(t, k, MaxNodes)
    \/ \E n \in BufLens, fill \in Fills : Encode(n, fill)
    \/ Decode

Spec == Init /\ [][Next]_vars

\* eight more bytes arrive
Receive(chunk) ==
    /\ dec.status = "none"
    /\ Len(buf) % 8 = 0 /\ Len(buf) < 8 * MaxChunks
    /\ buf' = buf \o chunk
    /\ UNCHANGED <<stack, written, enc, dec, query, found, field, plen, overflow_checks>>

\* the last four bytes have not arrived
Truncate ==
    /\ dec.status = "none"
    /\ Len(buf) % 8 = 0 /\ Len(buf) > 0
    /\ buf' = SubSeq(buf, 1, Len(buf) - 4)
    /\ UNCHANGED <<stack, written, enc, dec, query, found, field, plen, overflow_checks>>

\* Ttlv::decode(received)
DecodeReceived ==
    /\ dec.status = "none"
    /\ dec' = decode(buf)
    /\ UNCHANGED <<stack, buf, written, enc, query, found, field, plen, overflow_checks>>

NextDecode ==
    \/ \E chunk \in Chunks : Receive(chunk)
    \/ Truncate
    \/ DecodeReceived

SpecDecode == Init /\ [][NextDecode]_vars

\* message.path::<T>(&tags), T the enum Tag of lib.rs
Path(tags) ==
    /\ Len(stack) = 1 /\ found.status = "none"
    /\ query' = tags
    /\ found' = path(stack[1], TestTag, tags)
    /\ UNCHANGED <<stack, buf, written, enc, dec, field, plen, overflow_checks>>

NextPath ==
    \/ \E t \in PathTags, v \in PathLeaves : NewLeaf(t, v, MaxPathNodes)
    \/ \E t \in PathTags, k \in 0..MaxPathNodes : NewStructure(t, k, MaxPathNodes)
    \/ \E tags \in Seqs(QueryTags, MaxPathLen) : Path(tags)

SpecPath == Init /\ [][NextPath]_vars

InitLen ==
    /\ stack = << >>
    /\ buf = << >>
    /\ written = {}
    /\ enc = None
    /\ dec = DecNone
    /\ query = << >>
    /\ found = PathNone
    /\ field \in [1..4 -> LenBytes]
    /\ plen = LenNone
    /\ overflow_checks \in BOOLEAN

\* parse_ttlv_len(&field)
ParseLen ==
    /\ plen.status = "none"
    /\ plen' = parse_ttlv_len(field)
    /\ UNCHANGED <<stack, buf, written, enc, dec, query, found, field, overflow_checks>>

NextLen == ParseLen

SpecLen == InitLen /\ [][NextLen]_vars

---------------------------------------------------------------------------
\* Reference definitions the claims are stated with.

\* ceil(n / 8) * 8
PaddedLength(n) == ((n + 7) \div 8) * 8

Max(a, b) == IF a > b THEN a ELSE b

RECURSIVE RefSize(_)
RECURSIVE RefSizeAll(_)
RefSizeAll(nodes) ==
    IF nodes = << >> THEN 0 ELSE RefSize(Head(nodes)) + RefSizeAll(Tail(nodes))

\* the declared length of a node's payload
RefDeclared(n) ==
    CASE Kind(n) = "Structure" -> RefSizeAll(Payload(n))
      [] Kind(n) \in {"Integer", "Enumeration", "Interval"} -> 4
      [] Kind(n) \in {"LongInteger", "Boolean", "DateTime"} -> 8
      [] OTHER -> Len(Payload(n))

\* total encoded size: 8 + padded payload, recursively
RefSize(n) == 8 + PaddedLength(RefDeclared(n))

RECURSIVE HasBigInteger(_)
HasBigInteger(n) ==
    \/ Kind(n) = "BigInteger"
    \/ /\ Kind(n) = "Structure"
       /\ \E i \in 1..Len(Payload(n)) : HasBigInteger(Payload(n)[i])

\* the node written last: the root's last child's last child ...
RECURSIVE LastNode(_)
LastNode(n) ==
    IF Kind(n) = "Structure" /\ Payload(n) # << >>
    THEN LastNode(Payload(n)[Len(Payload(n))])
    ELSE n

\* the unsigned big-endian value of header bytes 4..8, for values below 2^16
DeclaredSmall(b) == 256 * b[7] + b[8]
DeclaredHuge(b) == b[5] # 0 \/ b[6] # 0

\* the message encode was given and whether encode has run
Message == stack[1]
Encoded == enc.status # "none"
EncodedOk == enc.status = "Ok"

\* the results of the children's encode calls, summed; the first child is
\* handed the parent's buffer from `cursor` on
RECURSIVE ChildReturns(_, _, _)
ChildReturns(children, cursor, total) ==
    IF children = << >> THEN 0
    ELSE LET r == encode(Head(children), Mem(Zeros(total - cursor)))
         IN  r.n + ChildReturns(Tail(children), cursor + r.n, total)

\* the first child in order whose tag is t, 0 when there is none
RECURSIVE FirstMatch(_, _, _)
FirstMatch(children, i, t) ==
    IF i > Len(children) THEN 0
    ELSE IF children[i].tag = t THEN i
    ELSE FirstMatch(children, i + 1, t)

RECURSIVE RefPath(_, _)
RefPath(n, tags) ==
    IF Kind(n) # "Structure"
    THEN [status |-> "Err", node |-> NoNode, err |-> "TypeMismatch"]
    ELSE LET i == FirstMatch(Payload(n), 1, tags[1])
         IN  IF i = 0 THEN [status |-> "Err", node |-> NoNode, err |-> "ChildNotFound"]
             ELSE IF Len(tags) = 1
             THEN [status |-> "Ok", node |-> Payload(n)[i], err |-> "none"]
             ELSE RefPath(Payload(n)[i], Tail(tags))

RECURSIVE RefEncode(_, _)
RECURSIVE RefEncodeAll(_, _, _)
\* the children in order from `cursor`, `total` bytes in the parent's buffer
RefEncodeAll(children, cursor, total) ==
    IF children = << >> THEN Ok(cursor)
    ELSE LET r == RefEncode(Head(children), total - cursor)
         IN  IF r.status # "Ok" THEN r
             ELSE RefEncodeAll(Tail(children), cursor + r.n, total)

\* the outcome of encoding n with `avail` bytes remaining
RefEncode(n, avail) ==
    IF avail < 16 THEN Err("InsufficientBufferSize")
    ELSE CASE Kind(n) = "BigInteger" -> Err("UnsupportedType")
           [] Kind(n) \in {"TextString", "ByteString"} ->
                IF PaddedLength(Len(Payload(n))) > avail - 8
                THEN Err("InsufficientBufferSize")
                ELSE Ok(8 + PaddedLength(Len(Payload(n))))
           [] Kind(n) = "Structure" -> RefEncodeAll(Payload(n), 8, avail)
           [] OTHER -> Ok(16)

\* the header and the padding of node n and of the nodes below it
RECURSIVE PadsZero(_, _, _)
RECURSIVE PadsZeroAll(_, _, _)
PadsZeroAll(nodes, b, off) ==
    \/ nodes = << >>
    \/ /\ PadsZero(Head(nodes), b, off)
       /\ PadsZeroAll(Tail(nodes), b, off + RefSize(Head(nodes)))

\* node n starts at Rust index off of b
PadsZero(n, b, off) ==
    /\ b[off + 1] = 66
    /\ b[off + 2] = n.tag \div 256 /\ b[off + 3] = n.tag % 256
    /\ b[off + 4] \in 1..10 /\ Kinds[b[off + 4]] = Kind(n)
    /\ \A i \in off + 8 + RefDeclared(n) .. off + RefSize(n) - 1 : b[i + 1] = 0
    /\ Kind(n) = "Structure" => PadsZeroAll(Payload(n), b, off + 8)

\* the children decoded from `cursor` up to the first attempt that fails
RECURSIVE RefChildren(_, _, _)
RefChildren(b, cursor, end) ==
    LET r == decode(Slice(b, cursor, end))
    IN  IF cursor <= end /\ r.status = "Ok"
        THEN << r.node >> \o RefChildren(b, cursor + r.n, end)
        ELSE << >>

StructureHeaderOk ==
    /\ Len(buf) >= 8 /\ buf[1] = 66 /\ buf[4] = 1
    /\ ~DeclaredHuge(buf) /\ 8 + PaddedLength(DeclaredSmall(buf)) <= Len(buf)

\* whether the node written last has an encoded size of 8
LastIsEmpty(n) == RefSize(LastNode(n)) = 8

---------------------------------------------------------------------------
\* C1: round trip.  Whenever encode returned Ok(n) and the whole buffer is
\* decoded, decode returns Ok with a tree equal to the one encoded and the
\* same byte count.
RoundTrip ==
    dec.status # "none" =>
        /\ dec.status = "Ok"
        /\ dec.node = Message
        /\ dec.n = enc.n

\* a Structure with an empty Structure and an empty TextString as siblings
\* of equal tag, encoded into a buffer of non-zero prior contents and decoded
RoundTripWitness ==
    /\ dec.status = "Ok"
    /\ Kind(Message) = "Structure"
    /\ Len(Payload(Message)) = 2
    /\ Payload(Message)[1] = Ttlv(258, << "Structure", << >> >>)
    /\ Payload(Message)[2] = Ttlv(258, << "TextString", << >> >>)
    /\ Len(buf) > enc.n /\ buf[enc.n + 1] = 255

\* C2: encode length invariant.  Whenever encode returns Ok(n), n is
\* 8 + padded_length(L) for the length L written big-endian to bytes 4..8,
\* n is a multiple of 8, and L is the sum of the children's encode results
\* (Structure), 4, 8 or the payload's byte length, by kind.
EncodeLength ==
    EncodedOk =>
        LET L == DeclaredSmall(buf)
        IN  /\ ~DeclaredHuge(buf)
            /\ enc.n = 8 + PaddedLength(L)
            /\ enc.n % 8 = 0
            /\ L % 8 = 0 \/ Kind(Message) # "Structure"
            /\ L = CASE Kind(Message) = "Structure" ->
                          ChildReturns(Payload(Message), 8, Len(buf))
                     [] Kind(Message) \in {"Integer", "Enumeration", "Interval"} -> 4
                     [] Kind(Message) \in {"LongInteger", "Boolean", "DateTime"} -> 8
                     [] OTHER -> Len(Payload(Message))

\* a Structure of two children, one of them a string that needs padding
EncodeLengthWitness ==
    /\ EncodedOk
    /\ Kind(Message) = "Structure"
    /\ Len(Payload(Message)) = 2
    /\ Payload(Message)[2] = Ttlv(258, << "TextString", << 195, 169 >> >>)
    /\ DeclaredSmall(buf) = 32

\* C3: decode is total.  For every buffer decode returns Ok or an Error; it
\* never aborts and never reads outside the buffer.
DecodeTotal == dec.status \in {"none", "Ok", "Err"}

\* C4: decode's outcomes for the top-level node, in order of precedence:
\* InsufficientBufferSize below 8 bytes, else MissingStartByte when byte 0 is
\* not 0x42, else UnsupportedType when byte 3 is no type code in 1..10, else
\* InsufficientBufferSize when 8 + padded_length(declared length) exceeds the
\* buffer, else CorruptUtf8 for a TextString whose payload is not UTF-8; and
\* on Ok the count is 8 + padded_length(declared length) and the tag is the
\* big-endian value of bytes 1..3.
DecodeOutcomes ==
    dec.status # "none" =>
        /\ Len(buf) < 8 => dec.status = "Err" /\ dec.err = "InsufficientBufferSize"
        /\ Len(buf) >= 8 /\ buf[1] # 66 =>
              dec.status = "Err" /\ dec.err = "MissingStartByte"
        /\ Len(buf) >= 8 /\ buf[1] = 66 /\ buf[4] \notin 1..10 =>
              dec.status = "Err" /\ dec.err = "UnsupportedType"
        /\ /\ Len(buf) >= 8 /\ buf[1] = 66 /\ buf[4] \in 1..10
           /\ DeclaredHuge(buf) \/ 8 + PaddedLength(DeclaredSmall(buf)) > Len(buf)
           => dec.status = "Err" /\ dec.err = "InsufficientBufferSize"
        /\ /\ Len(buf) >= 8 /\ buf[1] = 66 /\ buf[4] = 7
           /\ ~DeclaredHuge(buf) /\ 8 + PaddedLength(DeclaredSmall(buf)) <= Len(buf)
           /\ \/ \E i \in 9 .. 8 + DeclaredSmall(buf) : buf[i] = 255
              \/ ~from_utf8(Slice(buf, 8, 8 + DeclaredSmall(buf)))
           => dec.status = "Err" /\ dec.err = "CorruptUtf8"
        /\ dec.status = "Ok" =>
              /\ ~DeclaredHuge(buf)
              /\ dec.n = 8 + PaddedLength(DeclaredSmall(buf))
              /\ dec.node.tag = 256 * buf[2] + buf[3]

\* a TextString whose payload holds 0xFF
DecodeOutcomesWitness ==
    /\ dec.status = "Err" /\ dec.err = "CorruptUtf8"
    /\ buf[4] = 7 /\ buf[9] = 255

\* C5: path is the first-match descent, on every tree and every non-empty
\* tag sequence.
PathIsFirstMatch ==
    found.status # "none" /\ Len(query) >= 1 => found = RefPath(Message, query)

\* C6: encode's error outcomes.  encode returns InsufficientBufferSize when a
\* node is handed fewer than 16 bytes or a string's padded payload exceeds
\* the bytes after its header, UnsupportedType for a BigInteger handed at
\* least 16 bytes, and for a Structure the error of its first failing child;
\* it never returns Ok(n) with n above the buffer length, never Ok for a tree
\* holding a BigInteger, and never writes outside the buffer.
EncodeOutcomes ==
    Encoded =>
        /\ enc = RefEncode(Message, Len(buf))
        /\ enc.status # "Panic"
        /\ written \subseteq 0 .. Len(buf) - 1
        /\ enc.status = "Ok" => enc.n <= Len(buf)
        /\ HasBigInteger(Message) => enc.status # "Ok"

\* a Structure whose second child is a BigInteger, with room for both
EncodeOutcomesWitness ==
    /\ enc.status = "Err" /\ enc.err = "UnsupportedType"
    /\ Kind(Message) = "Structure"
    /\ Len(Payload(Message)) = 2
    /\ Kind(Payload(Message)[2]) = "BigInteger"

\* C7: after encode returns Ok(n), all of [0, n) has been written, the
\* header holds the start byte, the tag and the type code, and in every node
\* the bytes between the payload's end and its padded end are zero.
ZeroPadding ==
    EncodedOk =>
        /\ 0 .. enc.n - 1 \subseteq written
        /\ PadsZero(Message, buf, 0)

\* an Integer and a two-byte TextString in a buffer that held 0xFF throughout
ZeroPaddingWitness ==
    /\ EncodedOk
    /\ Kind(Message) = "Structure"
    /\ Len(Payload(Message)) = 2
    /\ Kind(Payload(Message)[1]) = "Integer"
    /\ Payload(Message)[2] = Ttlv(258, << "TextString", << 195, 169 >> >>)
    /\ Len(buf) > enc.n /\ buf[enc.n + 1] = 255

\* C8: a Structure whose header passes the checks always decodes to Ok,
\* with the children decoded up to the first failing attempt and
\* 8 + padded_length(declared length) bytes consumed.
StructureTruncates ==
    dec.status # "none" /\ StructureHeaderOk =>
        /\ dec.status = "Ok"
        /\ dec.n = 8 + PaddedLength(DeclaredSmall(buf))
        /\ dec.node.value = << "Structure", RefChildren(buf, 8, 8 + DeclaredSmall(buf)) >>

\* C9: parse_ttlv_len returns the padded length decode computes from the
\* same four bytes, for every input, without aborting.
ParseLenAgrees ==
    plen.status # "none" =>
        /\ plen.status = "Ok"
        /\ plen.val = padded_len(u32_as_usize(cread_with(field, 4, 0))).val

\* C10: a buffer of max(16, S) bytes suffices for a tree of encoded size S
\* without a BigInteger.
ExactSizeSuffices ==
    Encoded /\ ~HasBigInteger(Message) /\ Len(buf) >= Max(16, RefSize(Message))
        => enc = Ok(RefSize(Message))

\* C10 as amended: S + 8 bytes suffice; with fewer, encode fails with
\* InsufficientBufferSize exactly when the node written last is an empty
\* Structure or an empty string, for which fewer than 16 bytes remain.
SizePlusEightSuffices ==
    Encoded /\ ~HasBigInteger(Message) /\ Len(buf) >= Max(16, RefSize(Message))
        => IF LastIsEmpty(Message) /\ Len(buf) < RefSize(Message) + 8
           THEN enc = Err("InsufficientBufferSize")
           ELSE enc = Ok(RefSize(Message))

\* an empty Structure is written last and exactly 8 bytes remain for it
SizePlusEightWitness ==
    /\ enc = Err("InsufficientBufferSize")
    /\ Kind(Message) = "Structure" /\ Len(Payload(Message)) = 2
    /\ LastNode(Message) = Ttlv(258, << "Structure", << >> >>)
    /\ Len(buf) = RefSize(Message)

====
